---- MODULE Spec2Model ----
(***************************************************************************)
(* The mock server of src/server.rs: the registry (State), the dispatcher  *)
(* (handle_request) and the six handlers, one connection per step.         *)
(*                                                                         *)
(* A string is a sequence of one-character strings; an Option is a         *)
(* sequence of length 0 (None) or 1 (Some).                                *)
(***************************************************************************)
EXTENDS Integers, Sequences, FiniteSets, TLC

VARIABLES
    mocks,               \* State.mocks: Vec<RemoteMock>
    unmatched_requests,  \* State.unmatched_requests: Vec<Request>
    request,             \* the Request read from the connection being served
    response,            \* what the handler handed to stream.write
    handler,             \* the handler the connection was given to
    alive,               \* the listener thread has not panicked
    stamps,              \* history: registration number of each live mock
    clock,               \* history: number of mocks registered so far
    satisfied,           \* history: requests each live mock has satisfied
    last_recorded,       \* history: Some(most recently recorded unmatched request)
    caller,              \* where each caller of try_start is
    thread               \* the thread each caller's start() has spawned

vars == <<mocks, unmatched_requests, request, response, handler, alive,
          stamps, clock, satisfied, last_recorded, caller, thread>>

registry == <<mocks, unmatched_requests>>
history == <<stamps, clock, satisfied, last_recorded>>
startup == <<caller, thread>>

(***************************************************************************)
(* Bounds of the model.                                                    *)
(***************************************************************************)
MaxRegistrations == 2   \* mocks registered in one run
MaxUnmatched == 2       \* length of the unmatched-request log
MaxHits == 1            \* requests one mock satisfies in one run
MaxCallers == 3         \* callers of try_start

(***************************************************************************)
(* Strings.                                                                *)
(***************************************************************************)
None == <<>>
Some(x) == <<x>>

GET == <<"G", "E", "T">>
POST == <<"P", "O", "S", "T">>
DELETE == <<"D", "E", "L", "E", "T", "E">>
SP == <<" ">>
CRLF == <<"\r", "\n">>
MOCKS_PATH == <<"/", "m", "o", "c", "k", "i", "t", "o", "/", "m", "o", "c", "k", "s">>
LAST_PATH == <<"/", "m", "o", "c", "k", "i", "t", "o", "/", "l", "a", "s", "t", "_",
               "u", "n", "m", "a", "t", "c", "h", "e", "d", "_",
               "r", "e", "q", "u", "e", "s", "t">>

\* An invalid UTF-8 byte of a request body, and U+FFFD which replaces it.
INVALID_BYTE == "xFF"
REPLACEMENT == "uFFFD"

\* \w of the regex crate, over the characters the model uses.
WordChars == {"a", "b", "c", "d", "e", "h", "i", "k", "l", "m", "n", "o", "q", "r",
              "s", "t", "u", "x", "y", "A", "B", "D", "E", "G", "L", "O", "P", "S",
              "T", "0", "1", "2", "3", "4", "5", "6", "7", "8", "9", "_"}

Digits == <<"0", "1", "2", "3", "4", "5", "6", "7", "8", "9">>

\* format!("{}", n) of an unsigned integer.
RECURSIVE Decimal(_)
Decimal(n) == IF n < 10 THEN <<Digits[n + 1]>>
              ELSE Decimal(n \div 10) \o <<Digits[(n % 10) + 1]>>

\* str::to_lowercase, over the characters the model uses.
LowerChar(c) == CASE c = "A" -> "a"
                  [] c = "B" -> "b"
                  [] c = "D" -> "d"
                  [] c = "E" -> "e"
                  [] c = "G" -> "g"
                  [] c = "L" -> "l"
                  [] c = "O" -> "o"
                  [] c = "P" -> "p"
                  [] c = "S" -> "s"
                  [] c = "T" -> "t"
                  [] OTHER -> c
to_lowercase(s) == [i \in DOMAIN s |-> LowerChar(s[i])]

\* String::from_utf8_lossy: every invalid byte becomes U+FFFD.
from_utf8_lossy(bytes) ==
    [i \in DOMAIN bytes |-> IF bytes[i] = INVALID_BYTE THEN REPLACEMENT ELSE bytes[i]]

\* str::len: the length in bytes of the UTF-8 encoding (U+FFFD takes three).
RECURSIVE ByteLen(_)
ByteLen(s) == IF s = <<>> THEN 0
              ELSE (IF Head(s) = REPLACEMENT THEN 3 ELSE 1) + ByteLen(Tail(s))

(***************************************************************************)
(* Matcher (declared outside server.rs).                                   *)
(***************************************************************************)
Exact(s) == [tag |-> "Exact", value |-> s]
Regex(p) == [tag |-> "Regex", value |-> p]
Missing == [tag |-> "Missing", value |-> <<>>]

\* A pattern is a sequence of literal characters and ".", which stands for
\* any one character; it must match the whole of the observed string.
RegexFullMatch(p, s) ==
    /\ Len(p) = Len(s)
    /\ \A i \in DOMAIN p : p[i] = "." \/ p[i] = s[i]

\* Matcher == String
MatcherEq(m, s) ==
    CASE m.tag = "Exact" -> m.value = s
      [] m.tag = "Regex" -> RegexFullMatch(m.value, s)
      [] OTHER -> FALSE

(***************************************************************************)
(* Request (declared outside server.rs).                                   *)
(***************************************************************************)
Req(method, path, headers, body) ==
    [is_ok |-> TRUE, error |-> None, method |-> method, path |-> path,
     headers |-> headers, body |-> body]

BadReq(error) ==
    [is_ok |-> FALSE, error |-> error, method |-> <<>>, path |-> <<>>,
     headers |-> <<>>, body |-> <<>>]

\* Request::find_header: the value of the first header whose name equals
\* the searched one, names compared case-insensitively.
RECURSIVE FindHeaderIn(_, _)
FindHeaderIn(headers, field) ==
    IF headers = <<>> THEN None
    ELSE IF to_lowercase(Head(headers)[1]) = to_lowercase(field)
         THEN Some(Head(headers)[2])
         ELSE FindHeaderIn(Tail(headers), field)

find_header(req, field) == FindHeaderIn(req.headers, field)

RECURSIVE RenderHeaders(_)
RenderHeaders(headers) ==
    IF headers = <<>> THEN <<>>
    ELSE Head(headers)[1] \o <<":", " ">> \o Head(headers)[2] \o CRLF
         \o RenderHeaders(Tail(headers))

\* Display for Request: the request line, the headers, the body.
RenderRequest(req) ==
    req.method \o SP \o req.path \o CRLF
    \o RenderHeaders(req.headers) \o from_utf8_lossy(req.body)

(***************************************************************************)
(* RemoteMock and its predicates.                                          *)
(***************************************************************************)
MockResponse(status, headers, body) ==
    [status |-> status, headers |-> headers, body |-> body]

RemoteMock(id, method, path, headers, body, resp, hits, expected_hits) ==
    [id |-> id, method |-> method, path |-> path, headers |-> headers,
     body |-> body, response |-> resp, hits |-> hits,
     expected_hits |-> expected_hits]

method_matches(mock, req) == mock.method = req.method

path_matches(mock, req) == MatcherEq(mock.path, req.path)

\* The loop of headers_match over the declared (field, value) pairs.
RECURSIVE HeadersLoop(_, _)
HeadersLoop(declared, req) ==
    IF declared = <<>> THEN TRUE
    ELSE LET field == Head(declared)[1]
             value == Head(declared)[2]
             found == find_header(req, field)
         IN  IF found # None
             THEN IF MatcherEq(value, found[1])
                  THEN HeadersLoop(Tail(declared), req)
                  ELSE FALSE
             ELSE IF value = Missing
                  THEN HeadersLoop(Tail(declared), req)
                  ELSE FALSE

\* The loop with the None arm always continuing.
RECURSIVE HeadersLoopAbsentOk(_, _)
HeadersLoopAbsentOk(declared, req) ==
    IF declared = <<>> THEN TRUE
    ELSE LET field == Head(declared)[1]
             value == Head(declared)[2]
             found == find_header(req, field)
         IN  IF found # None
             THEN IF MatcherEq(value, found[1])
                  THEN HeadersLoopAbsentOk(Tail(declared), req)
                  ELSE FALSE
             ELSE HeadersLoopAbsentOk(Tail(declared), req)

headers_match_absent_ok(mock, req) == HeadersLoopAbsentOk(mock.headers, req)

headers_match(mock, req) == HeadersLoop(mock.headers, req)

body_matches(mock, req) == MatcherEq(mock.body, from_utf8_lossy(req.body))

\* The comparison made to fail once the mock has its expected hits.
MockEqUnexpended(mock, req) ==
    /\ mock.hits < mock.expected_hits
    /\ method_matches(mock, req)
    /\ path_matches(mock, req)
    /\ headers_match(mock, req)
    /\ body_matches(mock, req)

\* PartialEq<Request> for &mut RemoteMock
MockEq(mock, req) ==
    /\ method_matches(mock, req)
    /\ path_matches(mock, req)
    /\ headers_match(mock, req)
    /\ body_matches(mock, req)

(***************************************************************************)
(* The JSON form of a RemoteMock (derive(Serialize, Deserialize)).         *)
(***************************************************************************)
Quote(s) == <<"\"">> \o s \o <<"\"">>

MatcherJson(m) ==
    CASE m.tag = "Exact" -> Quote(m.value)
      [] m.tag = "Regex" -> <<"{", "R", ":">> \o Quote(m.value) \o <<"}">>
      [] OTHER -> <<"n", "u", "l", "l">>

RECURSIVE HeaderMatchersJson(_)
HeaderMatchersJson(hs) ==
    IF hs = <<>> THEN <<>>
    ELSE <<"[">> \o Quote(Head(hs)[1]) \o <<",">> \o MatcherJson(Head(hs)[2]) \o <<"]">>
         \o HeaderMatchersJson(Tail(hs))

RECURSIVE HeaderPairsJson(_)
HeaderPairsJson(hs) ==
    IF hs = <<>> THEN <<>>
    ELSE <<"[">> \o Quote(Head(hs)[1]) \o <<",">> \o Quote(Head(hs)[2]) \o <<"]">>
         \o HeaderPairsJson(Tail(hs))

ResponseJson(r) ==
    <<"{">> \o Quote(r.status) \o <<",", "[">> \o HeaderPairsJson(r.headers)
    \o <<"]", ",">> \o Quote(r.body) \o <<"}">>

\* serde_json::to_string(mock)
ToJson(mock) ==
    <<"{">> \o Quote(mock.id) \o <<",">> \o Quote(mock.method) \o <<",">>
    \o MatcherJson(mock.path) \o <<",", "[">> \o HeaderMatchersJson(mock.headers)
    \o <<"]", ",">> \o MatcherJson(mock.body) \o <<",">> \o ResponseJson(mock.response)
    \o <<",">> \o Decimal(mock.hits) \o <<",">> \o Decimal(mock.expected_hits) \o <<"}">>

(***************************************************************************)
(* Responses: the status line after "HTTP/1.1 ", the header lines in the   *)
(* order written, and the body.                                            *)
(***************************************************************************)
STATUS_200 == <<"2", "0", "0", " ", "O", "K">>
STATUS_404 == <<"4", "0", "4", " ", "N", "o", "t", " ", "F", "o", "u", "n", "d">>
STATUS_422 == <<"4", "2", "2", " ", "U", "n", "p", "r", "o", "c", "e", "s", "s", "a",
      "b", "l", "e", " ", "E", "n", "t", "i", "t", "y">>
STATUS_501 == <<"5", "0", "1", " ", "N", "o", "t", " ", "I", "m", "p", "l", "e", "m",
      "e", "n", "t", "e", "d">>
CONTENT_LENGTH == <<"c", "o", "n", "t", "e", "n", "t", "-", "l", "e", "n", "g", "t", "h">>
COULD_NOT_PARSE ==
    <<"C", "o", "u", "l", "d", " ", "n", "o", "t", " ", "p", "a", "r", "s",
      "e", " ", "t", "h", "e", " ", "r", "e", "q", "u", "e", "s", "t", ".">>

Response(status, headers, body) == [status |-> status, headers |-> headers, body |-> body]

NoResponse == Response(<<>>, <<>>, <<>>)

\* "HTTP/1.1 {status}\r\n\r\n"
Bare(status) == Response(status, <<>>, <<>>)

\* "HTTP/1.1 {status}\r\ncontent-length: {}\r\n\r\n{}", body.len(), body
WithLength(status, body) ==
    Response(status, << <<CONTENT_LENGTH, Decimal(ByteLen(body))>> >>, body)

\* The response handle_match_mock builds from the mock it found.
CannedResponse(mock) ==
    Response(mock.response.status,
             << <<CONTENT_LENGTH, Decimal(ByteLen(mock.response.body))>> >>
                 \o mock.response.headers,
             mock.response.body)

(***************************************************************************)
(* The routes of handle_request.                                           *)
(***************************************************************************)
request_line(req) == req.method \o SP \o req.path

\* ^{text}$
IsMatch(text, line) == line = text

\* ^{prefix}(?P<mock_id>\w+)$ : Some(mock_id) or None
Captures(prefix, line) ==
    IF /\ Len(line) > Len(prefix)
       /\ SubSeq(line, 1, Len(prefix)) = prefix
       /\ \A i \in (Len(prefix) + 1)..Len(line) : line[i] \in WordChars
    THEN Some(SubSeq(line, Len(prefix) + 1, Len(line)))
    ELSE None

GET_MOCK_REGEX(line) == Captures(GET \o SP \o MOCKS_PATH \o <<"/">>, line)
POST_MOCKS_REGEX(line) == IsMatch(POST \o SP \o MOCKS_PATH, line)
\* ^{text} : the pattern without its closing anchor
IsPrefix(text, line) ==
    /\ Len(line) >= Len(text)
    /\ SubSeq(line, 1, Len(text)) = text

DELETE_MOCKS_UNANCHORED(line) == IsPrefix(DELETE \o SP \o MOCKS_PATH, line)
DELETE_MOCKS_REGEX(line) == IsMatch(DELETE \o SP \o MOCKS_PATH, line)
DELETE_MOCK_REGEX(line) == Captures(DELETE \o SP \o MOCKS_PATH \o <<"/">>, line)
LAST_REQUEST(line) == IsMatch(GET \o SP \o LAST_PATH, line)

\* The handler handle_request gives the request to.
Route(req) ==
    LET line == request_line(req)
    IN  IF GET_MOCK_REGEX(line) # None THEN "handle_get_mock"
        ELSE IF POST_MOCKS_REGEX(line) THEN "handle_post_mock"
        ELSE IF DELETE_MOCKS_REGEX(line) THEN "handle_delete_mocks"
        ELSE IF DELETE_MOCK_REGEX(line) # None THEN "handle_delete_mock"
        ELSE IF LAST_REQUEST(line) THEN "handle_last_unmatched_request"
        ELSE "handle_match_mock"

(***************************************************************************)
(* The inputs: the mocks a client registers and the requests it sends.     *)
(***************************************************************************)
PATH_X == <<"/", "x">>
ID_A == <<"a">>
ID_B == <<"b">>
ID_A_B == <<"a", "-", "b">>
FIELD_A == <<"A">>

ResponseA == MockResponse(STATUS_200, <<>>, <<"A">>)
ResponseB == MockResponse(<<"2", "0", "1">>, << <<<<"k">>, <<"v">>>> >>, <<"B">>)

\* GET /x with a body of one character that is not valid UTF-8
MockA == RemoteMock(ID_A, GET, Exact(PATH_X), <<>>, Exact(<<REPLACEMENT>>),
                    ResponseA, 0, 1)
\* GET of any one-character path, without the header A, with a body of any
\* one character; an id that is not made of word characters, and a hits
\* field that is not 0
MockB == RemoteMock(ID_A_B, GET, Regex(<<"/", ".">>), << <<FIELD_A, Missing>> >>,
                    Regex(<<".">>), ResponseB, 1, 1)

MockInputs == {MockA, MockB}

\* The records a register body can hold.
MockUniverse ==
    {RemoteMock(id, GET, path, headers, body, resp, hits, 1) :
        id \in {ID_A, ID_B, ID_A_B},
        path \in {Exact(PATH_X), Regex(<<"/", ".">>)},
        headers \in {<<>>, << <<FIELD_A, Missing>> >>, << <<FIELD_A, Exact(<<"1">>)>> >>},
        body \in {Exact(<<>>), Exact(<<REPLACEMENT>>), Regex(<<".">>)},
        resp \in {ResponseA, ResponseB},
        hits \in {0, 1}}

\* The record each well-formed register body holds.
JsonTable ==
    [body \in {ToJson(m) : m \in MockUniverse} |->
        CHOOSE m \in MockUniverse : ToJson(m) = body]

\* serde_json::from_slice::<RemoteMock>(body): Some(mock), or None and
\* the message of the error.
from_slice(body) ==
    IF body \in DOMAIN JsonTable
    THEN [mock |-> Some(JsonTable[body]), message |-> <<>>]
    ELSE [mock |-> None,
          message |-> IF body = <<>> \/ body[Len(body)] # "}"
                      THEN <<"E", "O", "F">>
                      ELSE <<"i", "n", "v", "a", "l", "i", "d">>]

MalformedBodies == {<<"{">>}

PostRequests ==
    {Req(POST, MOCKS_PATH, <<>>, body) :
        body \in {ToJson(m) : m \in MockInputs} \cup MalformedBodies}

IdPath(id) == MOCKS_PATH \o <<"/">> \o id

GetRequests == {Req(GET, IdPath(id), <<>>, <<>>) : id \in {ID_A, ID_A_B}}

DeleteRequests == {Req(DELETE, IdPath(ID_A), <<>>, <<>>),
                   Req(DELETE, MOCKS_PATH, <<>>, <<>>)}

LastRequest == Req(GET, LAST_PATH, <<>>, <<>>)

PlainRequests ==
    {Req(GET, PATH_X, <<>>, <<INVALID_BYTE>>),
     Req(GET, PATH_X, << <<<<"a">>, <<"1">>>> >>, <<INVALID_BYTE>>)}

Requests == PostRequests \cup GetRequests \cup DeleteRequests
            \cup {LastRequest} \cup PlainRequests

\* The requests handle_request gives to handler h.
Routed(h) == {req \in Requests : Route(req) = h}
ToGetMock == Routed("handle_get_mock")
ToPostMock == Routed("handle_post_mock")
ToDeleteMocks == Routed("handle_delete_mocks")
ToDeleteMock == Routed("handle_delete_mock")
ToLastUnmatchedRequest == Routed("handle_last_unmatched_request")
ToMatchMock == Routed("handle_match_mock")

\* What Request::from leaves in error() when it fails.
ParseErrors == {None, Some(<<"b", "a", "d">>)}

(***************************************************************************)
(* Vec and iterator operations the handlers use.                           *)
(***************************************************************************)
Min(S) == CHOOSE x \in S : \A y \in S : x <= y
Max(S) == CHOOSE x \in S : \A y \in S : x >= y

\* Vec::push
PushFront(v, x) == <<x>> \o v
Push(v, x) == Append(v, x)

\* state.unmatched_requests.push(request)
DropUnmatched(log, req) == log
PushUnmatched(log, req) == Push(log, req)

\* Vec::clear
ClearButFirst(v) == IF v = <<>> THEN <<>> ELSE <<v[1]>>
Clear(v) == <<>>

\* Vec::remove
RemoveFrom(v, pos) == SubSeq(v, 1, pos - 1)
Remove(v, pos) == SubSeq(v, 1, pos - 1) \o SubSeq(v, pos + 1, Len(v))

\* slice::last, as an Option
First(v) == IF v = <<>> THEN None ELSE Some(v[1])
Last(v) == IF v = <<>> THEN None ELSE Some(v[Len(v)])

\* iter().position(|mock| mock.id == mock_id), as an Option
PositionById(ms, mock_id) ==
    LET at == {i \in DOMAIN ms : ms[i].id = mock_id}
    IN  IF at = {} THEN None ELSE Some(Min(at))

\* iter().find(|mock| mock.id == mock_id), as an Option
FindById(ms, mock_id) ==
    LET at == {i \in DOMAIN ms : ms[i].id = mock_id}
    IN  IF at = {} THEN None ELSE Some(ms[Min(at)])

\* iter_mut().rev().find(|mock| mock == &request): Some(index) or None
FindForward(ms, req) ==
    LET at == {i \in DOMAIN ms : MockEq(ms[i], req)}
    IN  IF at = {} THEN None ELSE Some(Min(at))
FindRev(ms, req) ==
    LET at == {i \in DOMAIN ms : MockEq(ms[i], req)}
    IN  IF at = {} THEN None ELSE Some(Max(at))

\* mock.hits = mock.hits + 1
HitEvery(ms, k) == [i \in DOMAIN ms |-> [ms[i] EXCEPT !.hits = @ + 1]]
Hit(ms, k) == [ms EXCEPT ![k].hits = @ + 1]

(***************************************************************************)
(* The callers of try_start and the threads they spawn.  A caller is       *)
(* "idle" before its call, "starting" between the is_listening() of        *)
(* try_start and the thread::spawn of start(), "waiting" in the loop at    *)
(* the end of start() and "returned" after try_start.  The thread of a     *)
(* caller is "none" until spawned, "spawned" until its bind, and then      *)
(* "listening" or "panicked".                                              *)
(***************************************************************************)
Callers == 1..MaxCallers

\* TcpStream::connect(SERVER_ADDRESS).is_ok(): some listener is bound.
is_listening == \E c \in Callers : thread[c] = "listening"

\* One caller has gone through try_start alone; the others have not called.
Started ==
    /\ caller = [c \in Callers |-> IF c = 1 THEN "returned" ELSE "idle"]
    /\ thread = [c \in Callers |-> IF c = 1 THEN "listening" ELSE "none"]

(***************************************************************************)
(* The state after start(): State::default(), no connection served yet.    *)
(***************************************************************************)
Init ==
    /\ mocks = <<>>
    /\ unmatched_requests = <<>>
    /\ request = Req(<<>>, <<>>, <<>>, <<>>)
    /\ response = NoResponse
    /\ handler = "none"
    /\ alive = TRUE
    /\ stamps = <<>>
    /\ clock = 0
    /\ satisfied = <<>>
    /\ last_recorded = None
    /\ Started

\* The connection is given to handler h, which hands resp to stream.write;
\* unwrap() panics the listener thread when the write fails.
Serve(req, h, resp, ok) ==
    /\ request' = req
    /\ handler' = h
    /\ response' = resp
    /\ alive' = ok
    /\ UNCHANGED startup

(***************************************************************************)
(* The handlers.                                                           *)
(***************************************************************************)
\* What handle_get_mock answers for mock_id when the mocks are ms.
GetMockResponse(ms, mock_id) ==
    LET found == FindById(ms, mock_id)
    IN  IF found # None
        THEN WithLength(STATUS_200, ToJson(found[1]))
        ELSE Bare(STATUS_404)

handle_get_mock(req, mock_id, ok) ==
    /\ Serve(req, "handle_get_mock", GetMockResponse(mocks, mock_id), ok)
    /\ UNCHANGED <<registry, history>>

handle_post_mock(req, ok) ==
    LET parsed == from_slice(req.body)
    IN  IF parsed.mock # None
        THEN /\ clock < MaxRegistrations
             /\ mocks' = Push(mocks, parsed.mock[1])
             /\ Serve(req, "handle_post_mock", Bare(STATUS_200), ok)
             /\ stamps' = Push(stamps, clock + 1)
             /\ clock' = clock + 1
             /\ satisfied' = Push(satisfied, 0)
             /\ UNCHANGED <<unmatched_requests, last_recorded>>
        ELSE /\ Serve(req, "handle_post_mock", WithLength(STATUS_422, parsed.message), ok)
             /\ UNCHANGED <<registry, history>>

\* handle_delete_mocks clearing the whole State, not the mocks alone.
handle_delete_state(req, ok) ==
    /\ mocks' = Clear(mocks)
    /\ unmatched_requests' = Clear(unmatched_requests)
    /\ Serve(req, "handle_delete_mocks", Bare(STATUS_200), ok)
    /\ stamps' = Clear(stamps)
    /\ satisfied' = Clear(satisfied)
    /\ UNCHANGED <<clock, last_recorded>>

handle_delete_mocks(req, ok) ==
    /\ mocks' = Clear(mocks)
    /\ Serve(req, "handle_delete_mocks", Bare(STATUS_200), ok)
    /\ stamps' = Clear(stamps)
    /\ satisfied' = Clear(satisfied)
    /\ UNCHANGED <<unmatched_requests, clock, last_recorded>>

handle_delete_mock(req, mock_id, ok) ==
    LET found == PositionById(mocks, mock_id)
    IN  IF found # None
        THEN /\ mocks' = Remove(mocks, found[1])
             /\ Serve(req, "handle_delete_mock", Bare(STATUS_200), ok)
             /\ stamps' = Remove(stamps, found[1])
             /\ satisfied' = Remove(satisfied, found[1])
             /\ UNCHANGED <<unmatched_requests, clock, last_recorded>>
        ELSE /\ Serve(req, "handle_delete_mock", Bare(STATUS_404), ok)
             /\ UNCHANGED <<registry, history>>

handle_last_unmatched_request(req, ok) ==
    LET found == Last(unmatched_requests)
        body == IF found # None THEN RenderRequest(found[1]) ELSE <<>>
    IN  /\ Serve(req, "handle_last_unmatched_request", WithLength(STATUS_200, body), ok)
        /\ UNCHANGED <<registry, history>>

handle_match_mock(req, ok) ==
    LET found == FindRev(mocks, req)
    IN  IF found # None
        THEN /\ satisfied[found[1]] < MaxHits
             /\ mocks' = Hit(mocks, found[1])
             /\ Serve(req, "handle_match_mock", CannedResponse(mocks[found[1]]), ok)
             /\ satisfied' = [satisfied EXCEPT ![found[1]] = @ + 1]
             /\ UNCHANGED <<unmatched_requests, stamps, clock, last_recorded>>
        ELSE /\ Len(unmatched_requests) < MaxUnmatched
             /\ unmatched_requests' = PushUnmatched(unmatched_requests, req)
             /\ Serve(req, "handle_match_mock", Bare(STATUS_501), ok)
             /\ last_recorded' = Some(req)
             /\ UNCHANGED <<mocks, stamps, clock, satisfied>>

(***************************************************************************)
(* One connection of the accept loop of start(), by the way it is served.  *)
(***************************************************************************)
\* The accept loop without its is_ok() test: the unparsed request is given
\* to the matching protocol.
ParseFailureDispatched ==
    /\ alive
    /\ \E error \in ParseErrors, ok \in BOOLEAN :
          handle_match_mock(BadReq(error), ok)

ParseFailure ==
    /\ alive
    /\ \E error \in ParseErrors, ok \in BOOLEAN :
          LET body == IF error # None THEN error[1] ELSE COULD_NOT_PARSE
          IN  /\ Serve(BadReq(error), "start", WithLength(STATUS_422, body), ok)
              /\ UNCHANGED <<registry, history>>

GetMock ==
    /\ alive
    /\ \E req \in ToGetMock, ok \in BOOLEAN :
          handle_get_mock(req, GET_MOCK_REGEX(request_line(req))[1], ok)

PostMock ==
    /\ alive
    /\ \E req \in ToPostMock, ok \in BOOLEAN :
          handle_post_mock(req, ok)

DeleteMocks ==
    /\ alive
    /\ \E req \in ToDeleteMocks, ok \in BOOLEAN :
          handle_delete_mocks(req, ok)

DeleteMock ==
    /\ alive
    /\ \E req \in ToDeleteMock, ok \in BOOLEAN :
          handle_delete_mock(req, DELETE_MOCK_REGEX(request_line(req))[1], ok)

LastUnmatchedRequest ==
    /\ alive
    /\ \E req \in ToLastUnmatchedRequest, ok \in BOOLEAN :
          handle_last_unmatched_request(req, ok)

MatchMock ==
    /\ alive
    /\ \E req \in ToMatchMock, ok \in BOOLEAN :
          handle_match_mock(req, ok)

Next ==
    \/ ParseFailure
    \/ GetMock
    \/ PostMock
    \/ DeleteMocks
    \/ DeleteMock
    \/ LastUnmatchedRequest
    \/ MatchMock

Spec == Init /\ [][Next]_vars

(***************************************************************************)
(* Matching one mock's declared headers against every small request: the   *)
(* registry holds a mock that any of these requests satisfies, and above   *)
(* it a mock that differs from it in its declared headers alone.           *)
(***************************************************************************)
HeaderPairs ==
    {<<field, matcher>> :
        field \in {<<"A">>, <<"B">>},
        matcher \in {Missing, Exact(<<"1">>), Exact(<<>>), Regex(<<".">>)}}

HeaderLists ==
    {<<>>} \cup {<<p>> : p \in HeaderPairs}
           \cup {<<p, q>> : p \in HeaderPairs, q \in HeaderPairs}

RequestHeaderPairs ==
    {<<name, value>> : name \in {<<"a">>, <<"c">>}, value \in {<<>>, <<"1">>}}

RequestHeaderLists ==
    {<<>>} \cup {<<p>> : p \in RequestHeaderPairs}
           \cup {<<p, q>> : p \in RequestHeaderPairs, q \in RequestHeaderPairs}

HeaderRequests == {Req(GET, PATH_X, headers, <<>>) : headers \in RequestHeaderLists}

InitHeaders ==
    /\ \E declared \in HeaderLists :
          mocks = <<RemoteMock(ID_A, GET, Exact(PATH_X), <<>>, Exact(<<>>),
                               ResponseA, 0, 1),
                    RemoteMock(ID_B, GET, Exact(PATH_X), declared, Exact(<<>>),
                               ResponseB, 0, 1)>>
    /\ unmatched_requests = <<>>
    /\ request = Req(<<>>, <<>>, <<>>, <<>>)
    /\ response = NoResponse
    /\ handler = "none"
    /\ alive = TRUE
    /\ stamps = <<1, 2>>
    /\ clock = 2
    /\ satisfied = <<0, 0>>
    /\ last_recorded = None
    /\ Started

MatchHeaders ==
    /\ alive
    /\ \E req \in HeaderRequests, ok \in BOOLEAN : handle_match_mock(req, ok)

SpecHeaders == InitHeaders /\ [][MatchHeaders]_vars

(***************************************************************************)
(* Properties.  A step is told by the primed handler and request: every    *)
(* connection sets both.                                                   *)
(***************************************************************************)
\* The live mocks of ms that req satisfies.
Satisfying(ms, req) == {i \in DOMAIN ms : MockEq(ms[i], req)}

\* The step serves a request given to the matching protocol.
MatchStep == handler' = "handle_match_mock"

\* Of the mocks at the positions S, the position of the one registered last.
Newest(S) == CHOOSE i \in S : \A j \in S : stamps[j] <= stamps[i]

\* C1: last registered wins.  Whenever a request given to the matching
\* protocol is satisfied by at least one live mock, the response is the
\* canned response of the satisfying mock that was registered most
\* recently.
C1_LastRegisteredWins ==
    [][(MatchStep /\ Satisfying(mocks, request') # {})
        => response' = CannedResponse(mocks[Newest(Satisfying(mocks, request'))])]_vars

\* A request answered by the newer of two live mocks that both satisfy it
\* and answer differently.
C1_Witness ==
    /\ handler = "handle_match_mock"
    /\ \E i, j \in Satisfying(mocks, request) :
          /\ i < j
          /\ mocks[i].response # mocks[j].response
          /\ j = Max(Satisfying(mocks, request))
          /\ response = CannedResponse(mocks[j])

\* C2: a satisfied request increments the hits of the selected mock by
\* exactly 1 and returns its response; every other mock, every other field,
\* the order and length of the mock sequence and the unmatched-request log
\* stay as they were.
C2_MatchFrame ==
    [][(MatchStep /\ Satisfying(mocks, request') # {})
        => \E k \in Satisfying(mocks, request') :
              /\ mocks' = [mocks EXCEPT ![k].hits = mocks[k].hits + 1]
              /\ response' = CannedResponse(mocks[k])
              /\ unmatched_requests' = unmatched_requests]_vars

\* A request just answered by one of two mocks that both satisfy it, the
\* other of which has never been selected.
C2_Witness ==
    /\ handler = "handle_match_mock"
    /\ response.status # STATUS_501
    /\ \E i, j \in Satisfying(mocks, request) :
          /\ i # j
          /\ satisfied[i] = 0
          /\ mocks[i].hits = 0
          /\ satisfied[j] = 1
          /\ mocks[j].hits = 1

\* C3: a request given to the matching protocol that no live mock
\* satisfies is answered 501 with an empty body and becomes the last
\* element of the unmatched-request log; the mock sequence is unchanged.
C3_NoMatch ==
    [][(MatchStep /\ Satisfying(mocks, request') = {})
        => /\ response'.status = STATUS_501
           /\ response'.body = <<>>
           /\ unmatched_requests' = Append(unmatched_requests, request')
           /\ mocks' = mocks]_vars

\* A second request recorded as unmatched while a mock with hits is live.
C3_Witness ==
    /\ handler = "handle_match_mock"
    /\ response.status = STATUS_501
    /\ Len(unmatched_requests) = 2
    /\ unmatched_requests[2] = request
    /\ unmatched_requests[1] # request
    /\ \E i \in DOMAIN mocks : satisfied[i] > 0

\* C4: GET /mockito/last_unmatched_request answers 200 with the rendering
\* of the most recently recorded unmatched request, whatever was
\* registered, matched, fetched or deleted since, or with an empty body
\* when no request was ever unmatched; it changes neither the mock
\* sequence nor the log.
C4_LastUnmatched ==
    [][(request'.is_ok /\ request_line(request') = GET \o SP \o LAST_PATH)
        => /\ response'.status = STATUS_200
           /\ response'.body = IF last_recorded = None THEN <<>>
                               ELSE RenderRequest(last_recorded[1])
           /\ mocks' = mocks
           /\ unmatched_requests' = unmatched_requests]_vars

\* The query answered after two different requests were recorded and all
\* mocks were then deleted.
C4_Witness ==
    /\ handler = "handle_last_unmatched_request"
    /\ Len(unmatched_requests) = 2
    /\ unmatched_requests[1] # unmatched_requests[2]
    /\ clock > 0
    /\ mocks = <<>>
    /\ response.body = RenderRequest(unmatched_requests[2])

\* The step serves DELETE /mockito/mocks/{id} and answers 200.
DeletedOne ==
    /\ handler' = "handle_delete_mock"
    /\ response'.status = STATUS_200

\* The id a request given to handle_delete_mock names.
DeletedId(req) == DELETE_MOCK_REGEX(request_line(req))[1]

\* The positions of the mocks of ms whose id is mock_id.
WithId(ms, mock_id) == {i \in DOMAIN ms : ms[i].id = mock_id}

\* C5, as stated: after a successful delete by id a fetch of that id is
\* answered 404, and exactly the deleted mock is gone, in every registry
\* state, also when several mocks carry the id.
C5_Original ==
    [][DeletedOne
        => /\ GetMockResponse(mocks', DeletedId(request')) = Bare(STATUS_404)
           /\ \E p \in WithId(mocks, DeletedId(request')) : mocks' = Remove(mocks, p)
           /\ unmatched_requests' = unmatched_requests]_vars

\* C5, amended: a successful delete by id removes exactly one mock carrying
\* that id and leaves every other mock in place with all its fields; a
\* fetch of that id is then answered 404 exactly when no other mock
\* carried the id, and otherwise 200 with the first one that remains.
C5_DeleteOne ==
    [][DeletedOne
        => /\ \E p \in WithId(mocks, DeletedId(request')) : mocks' = Remove(mocks, p)
           /\ unmatched_requests' = unmatched_requests
           /\ (GetMockResponse(mocks', DeletedId(request')) = Bare(STATUS_404))
                  <=> (Cardinality(WithId(mocks, DeletedId(request'))) = 1)
           /\ WithId(mocks', DeletedId(request')) # {}
                  => GetMockResponse(mocks', DeletedId(request')).body
                         = ToJson(mocks'[Min(WithId(mocks', DeletedId(request')))])]_vars

\* A delete by id just answered 200 that removed the first of two mocks
\* carrying the id and left the second, which has been hit, in place.
C5_Witness ==
    /\ handler = "handle_delete_mock"
    /\ response.status = STATUS_200
    /\ Len(mocks) = 1
    /\ clock = 2
    /\ WithId(mocks, DeletedId(request)) = {1}
    /\ satisfied[1] = 1

\* C6: DELETE /mockito/mocks answers 200 and leaves the mock sequence
\* empty; while the sequence is empty only a registration fills it, every
\* request given to the matching protocol is answered 501 and appended to
\* the unmatched-request log, and every fetch or delete by id is answered
\* 404.
C6_DeleteAll ==
    [][/\ (request'.is_ok /\ request_line(request') = DELETE \o SP \o MOCKS_PATH)
            => (response' = Bare(STATUS_200) /\ mocks' = <<>>)
       /\ (mocks = <<>> /\ handler' # "handle_post_mock") => mocks' = <<>>
       /\ (mocks = <<>> /\ MatchStep)
            => /\ response' = Bare(STATUS_501)
               /\ unmatched_requests' = Append(unmatched_requests, request')
       /\ (mocks = <<>> /\ handler' \in {"handle_get_mock", "handle_delete_mock"})
            => response' = Bare(STATUS_404)]_vars

\* After two registrations and a delete of all mocks, a request that a
\* registered mock satisfied is answered 501 and recorded.
C6_Witness ==
    /\ handler = "handle_match_mock"
    /\ response = Bare(STATUS_501)
    /\ mocks = <<>>
    /\ clock = 2
    /\ MockEq(MockA, request)
    /\ unmatched_requests # <<>>
    /\ unmatched_requests[Len(unmatched_requests)] = request

\* C7: a register request whose body does not parse is answered 422 with
\* the parser's message and leaves the mock sequence and the log as they
\* were; one whose body parses is answered 200 and appends the parsed mock
\* at the end of the sequence, whatever ids are already there.
C7_Register ==
    [][(request'.is_ok /\ request_line(request') = POST \o SP \o MOCKS_PATH)
        => LET parsed == from_slice(request'.body)
           IN  /\ unmatched_requests' = unmatched_requests
               /\ IF parsed.mock = None
                  THEN /\ response'.status = STATUS_422
                       /\ response'.body = parsed.message
                       /\ mocks' = mocks
                  ELSE /\ response' = Bare(STATUS_200)
                       /\ mocks' = Append(mocks, parsed.mock[1])]_vars

\* A registration answered 200 that appended a mock whose id the first
\* mock, which has been hit, already carries.
C7_Witness ==
    /\ handler = "handle_post_mock"
    /\ response = Bare(STATUS_200)
    /\ Len(mocks) = 2
    /\ mocks[1].id = mocks[2].id
    /\ satisfied[1] = 1
    /\ mocks[2] = JsonTable[request.body]

\* The ids a client may put after /mockito/mocks/.
IdStrings == {ID_A, ID_B, ID_A_B}

\* C8, as stated: for every id string, GET /mockito/mocks/{id} is answered
\* 200 with the first mock in stored order carrying that id, with its
\* current hits, or 404 with an empty body when no live mock carries it,
\* and the registry is unchanged.
C8_Original ==
    [][\A id \in IdStrings :
          (request'.is_ok /\ request'.method = GET /\ request'.path = IdPath(id))
              => /\ mocks' = mocks
                 /\ unmatched_requests' = unmatched_requests
                 /\ IF WithId(mocks, id) = {}
                    THEN response' = Bare(STATUS_404)
                    ELSE /\ response'.status = STATUS_200
                         /\ response'.body = ToJson(mocks[Min(WithId(mocks, id))])]_vars

\* The headers of req whose names one of the declared pairs names.
RECURSIVE OnlyDeclared(_, _)
OnlyDeclared(headers, declared) ==
    IF headers = <<>> THEN <<>>
    ELSE (IF \E i \in DOMAIN declared :
                to_lowercase(declared[i][1]) = to_lowercase(Head(headers)[1])
          THEN <<Head(headers)>> ELSE <<>>)
         \o OnlyDeclared(Tail(headers), declared)

\* Every declared pair agrees with req: a header the request carries is
\* equal to its matcher, a header it does not carry has the matcher Missing.
DeclaredAgree(declared, req) ==
    \A i \in DOMAIN declared :
        LET found == find_header(req, declared[i][1])
        IN  /\ found # None => MatcherEq(declared[i][2], found[1])
            /\ found = None => declared[i][2] = Missing

\* C9: headers_match holds exactly when every declared pair agrees with the
\* request, and the mock is then the one that answers; a pair whose matcher
\* is Missing agrees only with a request that carries no header of that
\* name, whatever its value; the headers the mock does not declare change
\* nothing.
C9_HeadersMatch ==
    handler = "handle_match_mock"
        => LET mock == mocks[2]
               agree == DeclaredAgree(mock.headers, request)
           IN  /\ headers_match(mock, request) <=> agree
               /\ (response = CannedResponse(mock)) <=> agree
               /\ agree
                    => \A i \in DOMAIN mock.headers :
                          mock.headers[i][2] = Missing
                              => \A j \in DOMAIN request.headers :
                                    to_lowercase(request.headers[j][1])
                                        # to_lowercase(mock.headers[i][1])
               /\ headers_match(mock, [request EXCEPT
                      !.headers = OnlyDeclared(request.headers, mock.headers)]) <=> agree

\* A mock declaring A: Missing and B: Missing that answered a request
\* carrying only a header it does not declare.
C9_Witness ==
    /\ handler = "handle_match_mock"
    /\ mocks[2].headers = << <<<<"A">>, Missing>>, <<<<"B">>, Missing>> >>
    /\ request.headers = << <<<<"c">>, <<>>>> >>
    /\ response = CannedResponse(mocks[2])
    /\ mocks[2].hits = 1

\* C10, as stated: the hits of every live mock equal the number of
\* requests that mock has satisfied since it was registered.
C10_Original ==
    \A i \in DOMAIN mocks : mocks[i].hits = satisfied[i]

(***************************************************************************)
(* C11: the content-length header of the responses.                        *)
(***************************************************************************)
\* The response hands the client the length of the body that was written.
HasContentLength(resp) ==
    \E i \in DOMAIN resp.headers :
        resp.headers[i] = <<CONTENT_LENGTH, Decimal(ByteLen(resp.body))>>

\* C11, as stated: every response the server writes, whatever its status
\* (200, 404 or 422 of the administration, the response of a matched mock,
\* the 501 of an unmatched request), carries a content-length header whose
\* value is the byte length of the body written.
C11_Original ==
    handler # "none" => HasContentLength(response)

(***************************************************************************)
(* C12: a response that could not be written.                              *)
(***************************************************************************)
\* C12, as stated: a failure while writing a response ends that connection
\* only; the listener thread, which owns the registry, is still running
\* after every connection it has served, so that later connections are
\* accepted and find the mocks registered before the failure.
C12_Original ==
    handler # "none" => alive

(***************************************************************************)
(* Startup: try_start, start and the thread start spawns, one step per     *)
(* call that reads or changes what another caller or thread can see.       *)
(***************************************************************************)
InitStart ==
    /\ mocks = <<>>
    /\ unmatched_requests = <<>>
    /\ request = Req(<<>>, <<>>, <<>>, <<>>)
    /\ response = NoResponse
    /\ handler = "none"
    /\ alive = TRUE
    /\ stamps = <<>>
    /\ clock = 0
    /\ satisfied = <<>>
    /\ last_recorded = None
    /\ caller = [c \in Callers |-> "idle"]
    /\ thread = [c \in Callers |-> "none"]

\* No connection is served by the steps of the startup.
NoConnection ==
    UNCHANGED <<registry, history, request, response, handler, alive>>

\* try_start up to its return or its call of start(): the is_listening()
\* of its first line.
try_start(c) ==
    /\ caller[c] = "idle"
    /\ caller' = [caller EXCEPT ![c] = IF is_listening THEN "returned"
                                                       ELSE "starting"]
    /\ UNCHANGED thread
    /\ NoConnection

\* start() up to its loop: thread::spawn.
start(c) ==
    /\ caller[c] = "starting"
    /\ caller' = [caller EXCEPT ![c] = "waiting"]
    /\ thread' = [thread EXCEPT ![c] = "spawned"]
    /\ NoConnection

\* The spawned thread: State::default(), then TcpListener::bind(..).unwrap(),
\* which panics when the address is in use.
bind(c) ==
    /\ thread[c] = "spawned"
    /\ thread' = [thread EXCEPT ![c] = IF is_listening THEN "panicked"
                                                       ELSE "listening"]
    /\ UNCHANGED caller
    /\ NoConnection

\* The loop at the end of start(): left by the first is_listening() that
\* is true.
wait(c) ==
    /\ caller[c] = "waiting"
    /\ is_listening
    /\ caller' = [caller EXCEPT ![c] = "returned"]
    /\ UNCHANGED thread
    /\ NoConnection

TryStart == \E c \in Callers : try_start(c)
Start == \E c \in Callers : start(c)
Bind == \E c \in Callers : bind(c)
Wait == \E c \in Callers : wait(c)

NextStart ==
    \/ TryStart
    \/ Start
    \/ Bind
    \/ Wait

SpecStart == InitStart /\ [][NextStart]_vars

(***************************************************************************)
(* C13: idempotent startup and readiness.                                  *)
(***************************************************************************)
\* The threads that start() has spawned so far, each with a State of its own.
Spawned == {c \in Callers : thread[c] # "none"}

\* At most one listener thread, with one registry, has been started.
AtMostOneStarted == Cardinality(Spawned) <= 1

\* No started thread has panicked on an address that is in use.
NoStartPanics == \A c \in Callers : thread[c] # "panicked"

\* A caller that try_start has returned to finds a listener accepting.
ReadyOnReturn ==
    \A c \in Callers : caller[c] = "returned" => is_listening

\* C13, as stated: for any number of callers of try_start, one after the
\* other or concurrently, at most one listener thread with one registry is
\* ever started, no start attempt panics because a server already exists,
\* and try_start returns to no caller before a listener accepts connections.
C13_Original ==
    /\ AtMostOneStarted
    /\ NoStartPanics
    /\ ReadyOnReturn

(***************************************************************************)
(* C14: a request that could not be parsed.                                *)
(***************************************************************************)
\* The text start() answers a request that could not be parsed with.
Diagnostic(req) ==
    IF req.error # None THEN req.error[1] ELSE COULD_NOT_PARSE

\* C14: a connection whose request could not be parsed is answered 422
\* with the parser's diagnostic as body by the accept loop itself; it is
\* given to no handler, and the mock sequence with every hits counter and
\* the unmatched-request log are as they were.
C14_ParseFailure ==
    [][~request'.is_ok
        => /\ handler' = "start"
           /\ response'.status = STATUS_422
           /\ response'.body = Diagnostic(request')
           /\ mocks' = mocks
           /\ unmatched_requests' = unmatched_requests]_vars

\* A request that could not be parsed, answered with the parser's text
\* while a mock with hits is live and a request is in the log.
C14_Witness ==
    /\ ~request.is_ok
    /\ request.error # None
    /\ response.body = request.error[1]
    /\ Len(unmatched_requests) > 0
    /\ \E i \in DOMAIN mocks : satisfied[i] > 0

(***************************************************************************)
(* The dispatcher applied to every small request line, on a registry that  *)
(* holds, for each administrative request line, a mock that a request      *)
(* with that line satisfies, and one mock for a line no route matches.     *)
(***************************************************************************)
\* handle_request trying the mocks before the administrative routes.
handle_request_mocks_first(req, ok) ==
    LET line == request_line(req)
    IN  IF FindRev(mocks, req) # None THEN handle_match_mock(req, ok)
        ELSE IF GET_MOCK_REGEX(line) # None
        THEN handle_get_mock(req, GET_MOCK_REGEX(line)[1], ok)
        ELSE IF POST_MOCKS_REGEX(line) THEN handle_post_mock(req, ok)
        ELSE IF DELETE_MOCKS_REGEX(line) THEN handle_delete_mocks(req, ok)
        ELSE IF DELETE_MOCK_REGEX(line) # None
        THEN handle_delete_mock(req, DELETE_MOCK_REGEX(line)[1], ok)
        ELSE IF LAST_REQUEST(line) THEN handle_last_unmatched_request(req, ok)
        ELSE handle_match_mock(req, ok)

handle_request(req, ok) ==
    LET line == request_line(req)
    IN  IF GET_MOCK_REGEX(line) # None
        THEN handle_get_mock(req, GET_MOCK_REGEX(line)[1], ok)
        ELSE IF POST_MOCKS_REGEX(line) THEN handle_post_mock(req, ok)
        ELSE IF DELETE_MOCKS_REGEX(line) THEN handle_delete_mocks(req, ok)
        ELSE IF DELETE_MOCK_REGEX(line) # None
        THEN handle_delete_mock(req, DELETE_MOCK_REGEX(line)[1], ok)
        ELSE IF LAST_REQUEST(line) THEN handle_last_unmatched_request(req, ok)
        ELSE handle_match_mock(req, ok)

RoutePaths ==
    {MOCKS_PATH, MOCKS_PATH \o <<"/">>, IdPath(ID_A), IdPath(ID_A_B), LAST_PATH}

RouteRequests ==
    {Req(method, path, <<>>, <<>>) :
        method \in {GET, POST, DELETE}, path \in RoutePaths}

\* A mock that any request with this method, this path, no declared header
\* and an empty body satisfies.
LineMock(id, method, path) ==
    RemoteMock(id, method, Exact(path), <<>>, Exact(<<>>), ResponseA, 0, 1)

InitRoutes ==
    /\ mocks = <<LineMock(ID_B, POST, MOCKS_PATH),
                 LineMock(ID_B, GET, IdPath(ID_A)),
                 LineMock(ID_A, DELETE, IdPath(ID_A)),
                 LineMock(ID_B, DELETE, MOCKS_PATH),
                 LineMock(ID_B, GET, LAST_PATH),
                 LineMock(ID_A_B, GET, IdPath(ID_A_B))>>
    /\ unmatched_requests = <<>>
    /\ request = Req(<<>>, <<>>, <<>>, <<>>)
    /\ response = NoResponse
    /\ handler = "none"
    /\ alive = TRUE
    /\ stamps = <<1, 2, 3, 4, 5, 6>>
    /\ clock = 6
    /\ satisfied = <<0, 0, 0, 0, 0, 0>>
    /\ last_recorded = None
    /\ Started

HandleRequest ==
    /\ alive
    /\ \E req \in RouteRequests, ok \in BOOLEAN : handle_request(req, ok)

SpecRoutes == InitRoutes /\ [][HandleRequest]_vars

(***************************************************************************)
(* C15: the order of the routes.                                           *)
(***************************************************************************)
\* The handler chosen by trying the five routes in the order register,
\* fetch by id, delete one, delete all, last unmatched request.
ListedRoute(req) ==
    LET line == request_line(req)
    IN  IF POST_MOCKS_REGEX(line) THEN "handle_post_mock"
        ELSE IF GET_MOCK_REGEX(line) # None THEN "handle_get_mock"
        ELSE IF DELETE_MOCK_REGEX(line) # None THEN "handle_delete_mock"
        ELSE IF DELETE_MOCKS_REGEX(line) THEN "handle_delete_mocks"
        ELSE IF LAST_REQUEST(line) THEN "handle_last_unmatched_request"
        ELSE "handle_match_mock"

\* C15: the handler a parsed request was given to is the one that trying
\* the five administrative routes in the listed order (register, fetch by
\* id, delete one, delete all, last unmatched request) chooses, first match
\* winning; a request line that matches none of the five is given to the
\* matching protocol.
C15_ListedOrder ==
    (handler # "none" /\ request.is_ok) => handler = ListedRoute(request)

\* A delete by id given to delete one, the route that handle_request tries
\* after delete all and the list tries before it.
C15_Witness ==
    /\ handler = "handle_delete_mock"
    /\ request_line(request) = DELETE \o SP \o IdPath(ID_A)
    /\ ListedRoute(request) = "handle_delete_mock"

(***************************************************************************)
(* C16: delete by id and the order of the mocks.                           *)
(***************************************************************************)
\* v is w without the element at position p, the others in place.
Without(v, w, p) ==
    /\ Len(v) = Len(w) - 1
    /\ \A i \in DOMAIN v : v[i] = IF i < p THEN w[i] ELSE w[i + 1]

\* The mocks are stored in the order in which they were registered.
RegistrationOrdered(st) ==
    \A i, j \in DOMAIN st : i < j => st[i] < st[j]

\* C16, as stated: for every id, DELETE /mockito/mocks/{id} on a registry
\* holding a mock with that id removes the first such mock in stored order
\* and nothing else and answers 200, the surviving mocks keeping their
\* order and their fields, hits included; when no mock has the id it
\* answers 404 and changes nothing.  After every step the stored mocks are,
\* in registration order, the registered mocks not yet deleted.
C16_Original ==
    [][/\ \A id \in IdStrings :
             (request'.is_ok /\ request_line(request') = DELETE \o SP \o IdPath(id))
                 => LET at == WithId(mocks, id)
                    IN  /\ unmatched_requests' = unmatched_requests
                        /\ IF at = {}
                           THEN /\ response' = Bare(STATUS_404)
                                /\ mocks' = mocks
                           ELSE /\ response' = Bare(STATUS_200)
                                /\ Without(mocks', mocks, Min(at))
                                /\ Without(stamps', stamps, Min(at))
       /\ RegistrationOrdered(stamps')
       /\ Len(stamps') = Len(mocks')]_vars

(***************************************************************************)
(* C17: the unmatched-request log only grows.                              *)
(***************************************************************************)
\* The request line matches one of the five administrative routes.
Administrative(req) ==
    LET line == request_line(req)
    IN  \/ POST_MOCKS_REGEX(line)
        \/ GET_MOCK_REGEX(line) # None
        \/ DELETE_MOCK_REGEX(line) # None
        \/ DELETE_MOCKS_REGEX(line)
        \/ LAST_REQUEST(line)

\* v is the beginning of w.
Prefix(v, w) ==
    /\ Len(v) <= Len(w)
    /\ \A i \in DOMAIN v : v[i] = w[i]

\* C17: in every step the unmatched-request log before the step is a
\* prefix of the log after it; the log changes only by the append of the
\* request being served, and only when that request is parsed, matches no
\* administrative route and satisfies no mock.  Registration, fetch, delete
\* one, delete all, the last-unmatched query and a successful match leave
\* every entry in place.
C17_AppendOnly ==
    [][/\ Prefix(unmatched_requests, unmatched_requests')
       /\ unmatched_requests' # unmatched_requests
          => /\ unmatched_requests' = Append(unmatched_requests, request')
             /\ request'.is_ok
             /\ ~Administrative(request')
             /\ Satisfying(mocks, request') = {}]_vars

\* A delete of all mocks just served, with mocks registered before it, that
\* left two recorded requests in the log.
C17_Witness ==
    /\ handler = "handle_delete_mocks"
    /\ clock > 0
    /\ mocks = <<>>
    /\ Len(unmatched_requests) = 2
    /\ unmatched_requests[1] # unmatched_requests[2]

(***************************************************************************)
(* C18: the administrative routes come before the mocks.                   *)
(***************************************************************************)
\* C18: a parsed request whose method and path match one of the five
\* administrative routes is not given to the matching protocol: no mock
\* that is live after it has other hits than before it, and the
\* unmatched-request log is as it was, also when a live mock's method,
\* path, headers and body are satisfied by the request.
C18_RoutesShadowMocks ==
    [][(request'.is_ok /\ Administrative(request'))
        => /\ handler' # "handle_match_mock"
           /\ unmatched_requests' = unmatched_requests
           /\ \A i \in DOMAIN mocks', j \in DOMAIN mocks :
                 stamps'[i] = stamps[j] => mocks'[i].hits = mocks[j].hits]_vars

\* The last-unmatched query just served while a live mock that the query
\* satisfies has no hit, and another live mock has been hit.
C18_Witness ==
    /\ handler = "handle_last_unmatched_request"
    /\ Satisfying(mocks, request) # {}
    /\ \A i \in Satisfying(mocks, request) : mocks[i].hits = 0
    /\ \E i \in DOMAIN mocks : mocks[i].hits > 0

(***************************************************************************)
(* C19: one effect per request of the matching protocol.                   *)
(***************************************************************************)
\* The four predicates of a mock on a request.
Criteria(mock, req) ==
    /\ method_matches(mock, req)
    /\ path_matches(mock, req)
    /\ headers_match(mock, req)
    /\ body_matches(mock, req)

\* The mock with other counters.
Counting(mock, hits, expected_hits) ==
    [mock EXCEPT !.hits = hits, !.expected_hits = expected_hits]

\* C19: a parsed request given to the matching protocol has exactly one
\* effect on the registry.  When a live mock's method, path, headers and
\* body predicates all hold of it, one such mock has its hits incremented
\* by 1 and answers with its canned response, and the log is as it was;
\* otherwise the request is appended to the unmatched-request log, the
\* answer is 501 and the mocks are as they were.  Whether a mock matches
\* does not depend on its hits or expected_hits: a mock that has its
\* expected hits still matches.
C19_OneEffect ==
    [][MatchStep
        => LET S == {i \in DOMAIN mocks : Criteria(mocks[i], request')}
           IN  /\ IF S # {}
                  THEN /\ \E k \in S :
                             /\ mocks' = [mocks EXCEPT ![k].hits = mocks[k].hits + 1]
                             /\ response' = CannedResponse(mocks[k])
                       /\ unmatched_requests' = unmatched_requests
                  ELSE /\ mocks' = mocks
                       /\ unmatched_requests' = Append(unmatched_requests, request')
                       /\ response' = Bare(STATUS_501)
               /\ \A i \in DOMAIN mocks, h \in 0..2, e \in 0..2 :
                     Criteria(Counting(mocks[i], h, e), request')
                         = Criteria(mocks[i], request')]_vars

\* A request just answered by a mock that had its expected hits before the
\* request came.
C19_Witness ==
    /\ handler = "handle_match_mock"
    /\ \E i \in DOMAIN mocks :
          /\ response = CannedResponse(mocks[i])
          /\ satisfied[i] = 1
          /\ mocks[i].hits > mocks[i].expected_hits
          /\ \A j \in DOMAIN mocks : j # i => response # CannedResponse(mocks[j])

====
